---- MODULE Spec2Model ----
\* A model of the in-memory WebDAV lock system of lock.go (memLS): the name
\* index, the token registry, the expiry heap, the Confirm/release claim
\* protocol and lock discovery.
\*
\* Strings that the code slices (resource names) are sequences of one-character
\* strings, so "/a/b" is <<"/","a","/","b">> and "" is <<>>.  Tokens are TLA+
\* strings.  A *memLSNode pointer is an address <<name, k>> in the node store
\* `nodes`: the k-th object allocated for name that is still referenced; the
\* nil pointer is Nil.  A time.Time is an integer instant and a time.Duration
\* an integer number of ticks.
EXTENDS Integers, Sequences, FiniteSets, TLC

\* ---------------------------------------------------------------- bounds
\* The latest instant a caller passes as `now` (and the wall clock reaches).
MaxTime == 1
\* The finite lock duration callers ask for.
MaxDuration == 1
\* How many tokens one manager instance issues (successful Creates).
MaxCreates == 2
\* How many release closures returned by Confirm the callers keep.
MaxHandles == 2

\* ------------------------------------------------------------- constants
\* The nil *memLSNode.
Nil == <<>>
\* const infiniteTimeout = -1: a negative duration means the lock never expires.
infiniteTimeout == -1
\* time.Time{}: the zero instant, before every instant a caller passes.
ZeroTime == -1
\* gen as seeded by NewMemLS from time.Now().Unix().
GenSeed == 8

Times == 0..MaxTime
Durations == {infiniteTimeout, MaxDuration}
\* The names callers pass: "/", "/a", "/a/b" and "a//./b/..", which is not
\* slash-clean (it cleans to "/a").
Unclean == <<"a", "/", "/", ".", "/", "b", "/", ".", ".">>
RawNames == { <<"/">>, <<"/", "a">>, <<"/", "a", "/", "b">>, Unclean }
\* The empty name, which Confirm ignores.
EmptyName == <<>>

\* ------------------------------------------------------------- ErrXxx
ErrConfirmationFailed == "webdav: confirmation failed"
ErrLocked == "webdav: locked"
ErrNoSuchLock == "webdav: no such lock"
\* Not Go errors: how a call that does not return normally ends.
Panicked == "panic: webdav: memLS inconsistent held state"
Hangs == "never returns"

\* ---------------------------------------------------------- map helpers
MapGet(f, k) == IF k \in DOMAIN f THEN f[k] ELSE Nil
MapSet(f, k, v) == [x \in DOMAIN f \cup {k} |-> IF x = k THEN v ELSE f[x]]
MapDel(f, k) == [x \in DOMAIN f \ {k} |-> f[x]]
EmptyMap == [x \in {} |-> Nil]

\* ------------------------------------------------------- string helpers
\* strings.LastIndex(s, "/"): 0-based, -1 when s holds no slash.
LastIndex(s) ==
    LET at == {i \in 1..Len(s) : s[i] = "/"}
    IN  IF at = {} THEN -1 ELSE (CHOOSE i \in at : \A j \in at : j <= i) - 1

\* strings.HasPrefix(s, prefix)
HasPrefix(s, prefix) ==
    /\ Len(prefix) <= Len(s)
    /\ SubSeq(s, 1, Len(prefix)) = prefix

\* strconv.FormatUint(n, 10)
Digit == <<"0", "1", "2", "3", "4", "5", "6", "7", "8", "9">>
RECURSIVE FormatUint(_)
FormatUint(n) ==
    IF n < 10 THEN Digit[n + 1] ELSE FormatUint(n \div 10) \o Digit[(n % 10) + 1]

\* slashClean(name): path.Clean of the name made absolute.  The segments of
\* the name are read left to right: empty segments and "." are dropped, ".."
\* drops the segment before it (or nothing at the root).
RECURSIVE cleanSegs(_, _, _)
cleanSegs(s, cur, out) ==
    LET flush ==
            IF cur = <<>> \/ cur = <<".">> THEN out
            ELSE IF cur = <<".", ".">>
                 THEN (IF out = <<>> THEN out ELSE SubSeq(out, 1, Len(out) - 1))
                 ELSE Append(out, cur)
    IN  IF s = <<>> THEN flush
        ELSE IF Head(s) = "/" THEN cleanSegs(Tail(s), <<>>, flush)
        ELSE cleanSegs(Tail(s), Append(cur, Head(s)), out)

RECURSIVE joinSegs(_)
joinSegs(segs) ==
    IF segs = <<>> THEN <<>> ELSE <<"/">> \o Head(segs) \o joinSegs(Tail(segs))

slashClean(name) ==
    LET segs == cleanSegs(name, <<>>, <<>>)
    IN  IF segs = <<>> THEN <<"/">> ELSE joinSegs(segs)

\* The names walkToRoot(name, f) visits, in order: name itself first, then
\* each ancestor, "/" last.  f is applied by the callers below.
RECURSIVE walkToRoot(_)
walkToRoot(name) ==
    IF name = <<"/">> THEN <<name>>
    ELSE LET cut == SubSeq(name, 1, LastIndex(name))
             up1 == IF cut = <<>> THEN <<"/">> ELSE cut
         IN  <<name>> \o walkToRoot(up1)

\* path.Dir(name) for a slash-clean name other than "/".
pathDir(name) ==
    LET cut == SubSeq(name, 1, LastIndex(name))
    IN  IF cut = <<>> THEN <<"/">> ELSE cut

\* -------------------------------------------------------------- state
VARIABLES
    nodes,      \* the memLSNode objects: pointer -> fields
    byName,     \* memLS.byName: name -> pointer
    byToken,    \* memLS.byToken: token -> pointer
    byExpiry,   \* memLS.byExpiry: the heap's backing slice of pointers
    gen,        \* memLS.gen
    handles,    \* the release closures the callers keep: their captured n0, n1
    mu,         \* memLS.mu as the callers find it: TRUE once a call never returns
    pristine    \* history: the live tokens never refreshed or claimed since Create

vars == <<nodes, byName, byToken, byExpiry, gen, handles, mu, pristine>>

\* LockDetails{}
NoDetails == [Root |-> <<>>, Duration |-> 0, OwnerXML |-> "", ZeroDepth |-> FALSE]

\* &memLSNode{details: LockDetails{Root: name0}, byExpiryIndex: -1}
newNode(name0) ==
    [ details |-> [NoDetails EXCEPT !.Root = name0],
      token |-> "",
      refCount |-> 0,
      expiry |-> ZeroTime,
      byExpiryIndex |-> -1,
      held |-> FALSE ]

\* The memLS value the methods work on.
LS == [nodes |-> nodes, byName |-> byName, byToken |-> byToken,
       byExpiry |-> byExpiry, gen |-> gen]

\* A pointer no live object has: the address of the next allocation for name0.
newPtr(m, name0) ==
    LET k == CHOOSE i \in 1..(Cardinality(DOMAIN m.nodes) + 1) :
                 /\ <<name0, i>> \notin DOMAIN m.nodes
                 /\ \A j \in 1..(i - 1) : <<name0, j>> \in DOMAIN m.nodes
    IN  <<name0, k>>

\* ------------------------------------------------- byExpiry (heap.Interface)
\* Indices are 0-based as in the code; the slice b[i] is m.byExpiry[i + 1].
Less(m, i, j) == m.nodes[m.byExpiry[i + 1]].expiry < m.nodes[m.byExpiry[j + 1]].expiry

Swap(m, i, j) ==
    LET b  == [m.byExpiry EXCEPT ![i + 1] = m.byExpiry[j + 1], ![j + 1] = m.byExpiry[i + 1]]
        n1 == [m.nodes EXCEPT ![b[i + 1]].byExpiryIndex = i]
        n2 == [n1 EXCEPT ![b[j + 1]].byExpiryIndex = j]
    IN  [m EXCEPT !.byExpiry = b, !.nodes = n2]

Push(m, n) ==
    [m EXCEPT !.nodes[n].byExpiryIndex = Len(m.byExpiry),
              !.byExpiry = Append(m.byExpiry, n)]

Pop(m) ==
    LET i == Len(m.byExpiry) - 1
        n == m.byExpiry[i + 1]
    IN  [m EXCEPT !.nodes[n].byExpiryIndex = -1,
                  !.byExpiry = SubSeq(m.byExpiry, 1, i)]

\* container/heap: up, down, Push, Remove over the methods above.
RECURSIVE up(_, _)
up(m, j) ==
    LET i == (j - 1) \div 2
    IN  IF j <= 0 \/ i = j \/ ~Less(m, j, i) THEN m
        ELSE up(Swap(m, i, j), i)

RECURSIVE down(_, _, _)
down(m, i, n) ==
    LET j1 == 2 * i + 1
        j2 == j1 + 1
        j  == IF j2 < n /\ Less(m, j2, j1) THEN j2 ELSE j1
    IN  IF j1 >= n THEN [m |-> m, i |-> i]
        ELSE IF ~Less(m, j, i) THEN [m |-> m, i |-> i]
        ELSE down(Swap(m, i, j), j, n)

\* heap.Push(h, x): h.Push(x); up(h, h.Len()-1)
heapPush(m, x) == up(Push(m, x), Len(m.byExpiry))

\* heap.Remove(h, i): if the last index n is not i, Swap(i, n) and then
\* `if !down(h, i, n) { up(h, i) }` (d is what down gave); then Pop.
heapFix(d, i) == IF d.i > i THEN d.m ELSE up(d.m, i)

heapRemove(m, i) ==
    Pop(IF Len(m.byExpiry) - 1 # i
        THEN heapFix(down(Swap(m, i, Len(m.byExpiry) - 1), i, Len(m.byExpiry) - 1), i)
        ELSE m)

\* if n.byExpiryIndex >= 0 { heap.Remove(&m.byExpiry, n.byExpiryIndex) }
dequeue(m, n) ==
    IF m.nodes[n].byExpiryIndex >= 0 THEN heapRemove(m, m.nodes[n].byExpiryIndex) ELSE m

\* ------------------------------------------------------- memLS internals
\* A faulty nextToken, to try the properties on: it does not advance gen.
nextTokenWithoutAdvance(m) == [m |-> m, token |-> FormatUint(m.gen + 1)]

\* nextToken: m.gen++ and the decimal form of the new gen.
nextToken(m) ==
    [m |-> [m EXCEPT !.gen = m.gen + 1], token |-> FormatUint(m.gen + 1)]

\* The visitor of remove, applied along names: x.refCount--, and the name
\* leaves byName when the count reaches zero.  A name with no node is skipped.
RECURSIVE removeWalk(_, _)
removeWalk(m, names) ==
    IF names = <<>> THEN m
    ELSE LET name0 == Head(names)
             x == MapGet(m.byName, name0)
             m1 == IF x = Nil THEN m
                   ELSE LET c == m.nodes[x].refCount - 1
                            m0 == [m EXCEPT !.nodes[x].refCount = c]
                        IN  IF c = 0
                            THEN [m0 EXCEPT !.byName = MapDel(m.byName, name0)]
                            ELSE m0
         IN  removeWalk(m1, Tail(names))

\* remove(n): the token leaves byToken, the counts along the root drop, and
\* the node leaves the heap if its index says it is there.
remove(m, n) ==
    dequeue(removeWalk([m EXCEPT !.byToken = MapDel(m.byToken, m.nodes[n].token),
                                 !.nodes[n].token = ""],
                       walkToRoot(m.nodes[n].details.Root)),
            n)

\* The visitor of create, applied along names: a missing node is allocated,
\* every visited node's refCount is incremented.
RECURSIVE createWalk(_, _)
createWalk(m, names) ==
    IF names = <<>> THEN m
    ELSE LET name0 == Head(names)
             x == MapGet(m.byName, name0)
             p == IF x = Nil THEN newPtr(m, name0) ELSE x
             m1 == IF x = Nil
                   THEN [m EXCEPT !.nodes = MapSet(m.nodes, p, newNode(name0)),
                                  !.byName = MapSet(m.byName, name0, p)]
                   ELSE m
             m2 == [m1 EXCEPT !.nodes[p].refCount = m1.nodes[p].refCount + 1]
         IN  createWalk(m2, Tail(names))

\* create(name): the walk, and ret is the node of the first name visited.
created(m, name) == [m |-> m, ret |-> m.byName[name]]

create(m, name) == created(createWalk(m, walkToRoot(name)), name)

\* canCreate's visitor on the k-th name visited (first is k = 1).
canCreateAt(m, name0, first, zeroDepth) ==
    LET n == MapGet(m.byName, name0)
    IN  IF n = Nil THEN TRUE
        ELSE IF first
             THEN IF m.nodes[n].token # "" THEN FALSE
                  ELSE IF ~zeroDepth THEN FALSE
                  ELSE TRUE
             ELSE IF m.nodes[n].token # "" /\ ~m.nodes[n].details.ZeroDepth THEN FALSE
             ELSE TRUE

canCreate(m, name, zeroDepth) ==
    LET names == walkToRoot(name)
    IN  \A k \in 1..Len(names) : canCreateAt(m, names[k], k = 1, zeroDepth)

\* What the loop of collectExpiredNodes tends to when the head of the heap
\* has byExpiryIndex < 0: remove leaves byExpiry as it is, so the loop never
\* exits, and every turn decrements the counts along the head's root again.
RECURSIVE spin(_, _)
spin(m, n) ==
    IF \A k \in 1..Len(walkToRoot(m.nodes[n].details.Root)) :
            walkToRoot(m.nodes[n].details.Root)[k] \notin DOMAIN m.byName
    THEN remove(m, n)
    ELSE spin(remove(m, n), n)

\* collectExpiredNodes(now).  hang: the loop does not terminate.
RECURSIVE collectExpiredNodes(_, _)
collectExpiredNodes(m, now) ==
    IF Len(m.byExpiry) = 0 THEN [m |-> m, hang |-> FALSE]
    ELSE LET head == m.byExpiry[1]
         IN  IF now < m.nodes[head].expiry THEN [m |-> m, hang |-> FALSE]
             ELSE IF m.nodes[head].byExpiryIndex < 0
                  THEN [m |-> spin(m, head), hang |-> TRUE]
                  ELSE collectExpiredNodes(remove(m, head), now)

\* A faulty lookup, to try the properties on: it lets a zero-depth lock match
\* the names below its root.
RECURSIVE lookupIgnoringDepth(_, _, _)
lookupIgnoringDepth(m, name, conditions) ==
    IF conditions = <<>> THEN Nil
    ELSE LET n == MapGet(m.byToken, Head(conditions))
         IN  IF n = Nil \/ m.nodes[n].held THEN lookupIgnoringDepth(m, name, Tail(conditions))
             ELSE IF name = m.nodes[n].details.Root THEN n
             ELSE IF \/ m.nodes[n].details.Root = <<"/">>
                     \/ HasPrefix(name, m.nodes[n].details.Root \o <<"/">>)
                  THEN n
             ELSE lookupIgnoringDepth(m, name, Tail(conditions))

\* lookup(name, conditions...): the first condition whose token names a node
\* that is not held and locks name.  A condition is its Token.
RECURSIVE lookup(_, _, _)
lookup(m, name, conditions) ==
    IF conditions = <<>> THEN Nil
    ELSE LET n == MapGet(m.byToken, Head(conditions))
         IN  IF n = Nil \/ m.nodes[n].held THEN lookup(m, name, Tail(conditions))
             ELSE IF name = m.nodes[n].details.Root THEN n
             ELSE IF m.nodes[n].details.ZeroDepth THEN lookup(m, name, Tail(conditions))
             ELSE IF \/ m.nodes[n].details.Root = <<"/">>
                     \/ HasPrefix(name, m.nodes[n].details.Root \o <<"/">>)
                  THEN n
             ELSE lookup(m, name, Tail(conditions))

\* A faulty unhold, to try the properties on: it does not put the node back
\* in the expiry queue.
unholdWithoutPush(m, n) ==
    IF ~m.nodes[n].held THEN [m |-> m, panic |-> TRUE]
    ELSE [m |-> [m EXCEPT !.nodes[n].held = FALSE], panic |-> FALSE]

\* hold(n) and unhold(n); panic: the call panicked before changing anything.
hold(m, n) ==
    IF m.nodes[n].held THEN [m |-> m, panic |-> TRUE]
    ELSE [ m |-> IF m.nodes[n].details.Duration >= 0 /\ m.nodes[n].byExpiryIndex >= 0
                 THEN heapRemove([m EXCEPT !.nodes[n].held = TRUE], m.nodes[n].byExpiryIndex)
                 ELSE [m EXCEPT !.nodes[n].held = TRUE],
           panic |-> FALSE ]

unhold(m, n) ==
    IF ~m.nodes[n].held THEN [m |-> m, panic |-> TRUE]
    ELSE [ m |-> IF m.nodes[n].details.Duration >= 0
                 THEN heapPush([m EXCEPT !.nodes[n].held = FALSE], n)
                 ELSE [m EXCEPT !.nodes[n].held = FALSE],
           panic |-> FALSE ]

\* ------------------------------------------------------- what calls return
\* A nil release func, and the closure over n0 and n1.
NilFunc == [isNil |-> TRUE, n0 |-> Nil, n1 |-> Nil]
Closure(n0, n1) == [isNil |-> FALSE, n0 |-> n0, n1 |-> n1]

Result(op, err) ==
    [op |-> op, err |-> err, token |-> "", details |-> NoDetails,
     expiry |-> ZeroTime, release |-> NilFunc]

\* ------------------------------------------------------ the memLS methods
\* Each takes the memLS value m and gives the memLS value it leaves and what
\* it returns.  A method is a chain of steps, each an operator on what the
\* step before it left: c is what collectExpiredNodes gave.

\* n.token = token; m.byToken[token] = n; n.details = details
register(m, n, token, d) ==
    [m EXCEPT !.nodes[n].token = token,
              !.byToken = MapSet(m.byToken, token, n),
              !.nodes[n].details = d]

\* Create from the token t that nextToken gave for the node n.
CreateWithToken(t, n, now, d) ==
    [ m |-> IF d.Duration >= 0
            THEN heapPush([register(t.m, n, t.token, d)
                               EXCEPT !.nodes[n].expiry = now + d.Duration], n)
            ELSE register(t.m, n, t.token, d),
      ret |-> [Result("Create", "") EXCEPT !.token = t.token] ]

\* Create from what create(details.Root) gave: cr.ret is the node.
CreateAt(cr, now, d) == CreateWithToken(nextToken(cr.m), cr.ret, now, d)

\* Create after the sweep, with details.Root already slash-clean.
CreateAfterSweep(c, now, d) ==
    IF c.hang THEN [m |-> c.m, ret |-> Result("Create", Hangs)]
    ELSE IF ~canCreate(c.m, d.Root, d.ZeroDepth)
    THEN [m |-> c.m, ret |-> Result("Create", ErrLocked)]
    ELSE CreateAt(create(c.m, d.Root), now, d)

CreateOp(m, now, details) ==
    CreateAfterSweep(collectExpiredNodes(m, now), now,
                     [details EXCEPT !.Root = slashClean(details.Root)])

\* Refresh of the node n, already out of the heap: the new duration, the new
\* expiry and the heap entry when the duration is finite.
RefreshTimeout(m, n, now, duration) ==
    IF duration >= 0
    THEN heapPush([m EXCEPT !.nodes[n].details.Duration = duration,
                            !.nodes[n].expiry = now + duration], n)
    ELSE [m EXCEPT !.nodes[n].details.Duration = duration]

Refreshed(m, n) ==
    [m |-> m, ret |-> [Result("Refresh", "") EXCEPT !.details = m.nodes[n].details]]

RefreshAfterSweep(c, now, token, duration) ==
    IF c.hang THEN [m |-> c.m, ret |-> Result("Refresh", Hangs)]
    ELSE IF MapGet(c.m.byToken, token) = Nil
    THEN [m |-> c.m, ret |-> Result("Refresh", ErrNoSuchLock)]
    ELSE IF c.m.nodes[c.m.byToken[token]].held
    THEN [m |-> c.m, ret |-> Result("Refresh", ErrLocked)]
    ELSE Refreshed(RefreshTimeout(dequeue(c.m, c.m.byToken[token]),
                                  c.m.byToken[token], now, duration),
                   c.m.byToken[token])

RefreshOp(m, now, token, duration) ==
    RefreshAfterSweep(collectExpiredNodes(m, now), now, token, duration)

\* A faulty Unlock, to try the properties on: it does not look at n.held.
UnlockOpIgnoringHeld(m, now, token) ==
    LET c == collectExpiredNodes(m, now)
        n == MapGet(c.m.byToken, token)
    IN  IF c.hang THEN [m |-> c.m, ret |-> Result("Unlock", Hangs)]
        ELSE IF n = Nil THEN [m |-> c.m, ret |-> Result("Unlock", ErrNoSuchLock)]
        ELSE [m |-> remove(c.m, n), ret |-> Result("Unlock", "")]

UnlockAfterSweep(c, token) ==
    IF c.hang THEN [m |-> c.m, ret |-> Result("Unlock", Hangs)]
    ELSE IF MapGet(c.m.byToken, token) = Nil
    THEN [m |-> c.m, ret |-> Result("Unlock", ErrNoSuchLock)]
    ELSE IF c.m.nodes[c.m.byToken[token]].held
    THEN [m |-> c.m, ret |-> Result("Unlock", ErrLocked)]
    ELSE [m |-> remove(c.m, c.m.byToken[token]), ret |-> Result("Unlock", "")]

UnlockOp(m, now, token) == UnlockAfterSweep(collectExpiredNodes(m, now), token)

\* Delete looks name up as given: it does not slashClean it.
DeleteAfterSweep(c, name) ==
    IF c.hang THEN [m |-> c.m, ret |-> Result("Delete", Hangs)]
    ELSE IF MapGet(c.m.byName, name) = Nil THEN [m |-> c.m, ret |-> Result("Delete", "")]
    ELSE [m |-> remove(c.m, c.m.byName[name]), ret |-> Result("Delete", "")]

DeleteOp(m, now, name) == DeleteAfterSweep(collectExpiredNodes(m, now), name)

\* The loop of GetByName from name upwards.
RECURSIVE getByNameWalk(_, _)
getByNameWalk(m, name) ==
    IF MapGet(m.byName, name) # Nil /\ m.nodes[MapGet(m.byName, name)].token # ""
    THEN [Result("GetByName", "") EXCEPT !.token = m.nodes[m.byName[name]].token,
                                          !.expiry = m.nodes[m.byName[name]].expiry,
                                          !.details = m.nodes[m.byName[name]].details]
    ELSE IF name = <<"/">> THEN Result("GetByName", ErrNoSuchLock)
    ELSE getByNameWalk(m, pathDir(name))

GetByNameAfterSweep(c, name) ==
    IF c.hang THEN [m |-> c.m, ret |-> Result("GetByName", Hangs)]
    ELSE [m |-> c.m, ret |-> getByNameWalk(c.m, slashClean(name))]

\* GetByName sweeps at time.Now(), the wall clock, here the argument wall.
GetByNameOp(m, wall, name) == GetByNameAfterSweep(collectExpiredNodes(m, wall), name)

\* A faulty Confirm, to try the properties on: it holds n0 as soon as name0
\* is resolved, before name1 is looked up.
ConfirmOpHoldingEarly(m, now, name0, name1, conditions) ==
    LET c  == collectExpiredNodes(m, now)
        n0 == IF name0 # <<>> THEN lookup(c.m, slashClean(name0), conditions) ELSE Nil
        h0 == IF n0 # Nil THEN hold(c.m, n0) ELSE [m |-> c.m, panic |-> FALSE]
        n1 == IF name1 # <<>> THEN lookup(c.m, slashClean(name1), conditions) ELSE Nil
        failed == Result("Confirm", ErrConfirmationFailed)
    IN  IF c.hang THEN [m |-> c.m, ret |-> Result("Confirm", Hangs)]
        ELSE IF name0 # <<>> /\ n0 = Nil THEN [m |-> c.m, ret |-> failed]
        ELSE IF name1 # <<>> /\ n1 = Nil THEN [m |-> h0.m, ret |-> failed]
        ELSE LET n1b == IF n1 = n0 THEN Nil ELSE n1
                 h1  == IF n1b = Nil THEN h0 ELSE hold(h0.m, n1b)
             IN  [m |-> h1.m,
                  ret |-> [Result("Confirm", "") EXCEPT !.release = Closure(n0, n1b)]]

\* if n != nil { m.hold(n) }, unless an earlier hold panicked.
holdIf(h, n) == IF h.panic \/ n = Nil THEN h ELSE hold(h.m, n)

\* Confirm with n0 and n1 held (or a panic on the way): the closure over them.
ConfirmHeld(h, n0, n1) ==
    IF h.panic
    THEN [m |-> h.m, ret |-> Result("Confirm", Panicked)]
    ELSE [m |-> h.m, ret |-> [Result("Confirm", "") EXCEPT !.release = Closure(n0, n1)]]

\* Confirm from the nodes n0 and n1 that lookup gave for name0 and name1.
ConfirmNodes(m, name0, name1, n0, n1) ==
    IF name0 # <<>> /\ n0 = Nil THEN [m |-> m, ret |-> Result("Confirm", ErrConfirmationFailed)]
    ELSE IF name1 # <<>> /\ n1 = Nil
    THEN [m |-> m, ret |-> Result("Confirm", ErrConfirmationFailed)]
    ELSE ConfirmHeld(holdIf(holdIf([m |-> m, panic |-> FALSE], n0),
                            IF n1 = n0 THEN Nil ELSE n1),
                     n0, IF n1 = n0 THEN Nil ELSE n1)

ConfirmAfterSweep(c, name0, name1, conditions) ==
    IF c.hang THEN [m |-> c.m, ret |-> Result("Confirm", Hangs)]
    ELSE ConfirmNodes(c.m, name0, name1,
                      IF name0 # <<>> THEN lookup(c.m, slashClean(name0), conditions) ELSE Nil,
                      IF name1 # <<>> THEN lookup(c.m, slashClean(name1), conditions) ELSE Nil)

ConfirmOp(m, now, name0, name1, conditions) ==
    ConfirmAfterSweep(collectExpiredNodes(m, now), name0, name1, conditions)

\* if n != nil { m.unhold(n) }, unless an earlier unhold panicked.
unholdIf(u, n) == IF u.panic \/ n = Nil THEN u ELSE unhold(u.m, n)

released(u) == [m |-> u.m, ret |-> Result("release", IF u.panic THEN Panicked ELSE "")]

\* The closure Confirm returns, called: unhold(n1) then unhold(n0).  A panic
\* in the second unhold leaves what the first did.
releaseOp(m, h) == released(unholdIf(unholdIf([m |-> m, panic |-> FALSE], h.n1), h.n0))

\* ------------------------------------------------------------- actions
\* The objects still referenced: by the maps, the heap, or a kept closure.
\* The others are garbage.
Reachable(m, hs) ==
    ({m.byName[k] : k \in DOMAIN m.byName}
        \cup {m.byToken[k] : k \in DOMAIN m.byToken}
        \cup {m.byExpiry[k] : k \in 1..Len(m.byExpiry)}
        \cup {h.n0 : h \in hs}
        \cup {h.n1 : h \in hs}) \ {Nil}

\* A call left r (the memLS value r.m, the results r.ret) and the closures hs.
\* A call that never returns keeps m.mu (its deferred Unlock never runs).
Leaves(r, hs, touched) ==
    /\ nodes' = [p \in Reachable(r.m, hs) |-> r.m.nodes[p]]
    /\ byName' = r.m.byName
    /\ byToken' = r.m.byToken
    /\ byExpiry' = r.m.byExpiry
    /\ gen' = r.m.gen
    /\ handles' = hs
    /\ mu' = (r.ret.err = Hangs)
    /\ pristine' = ((pristine \cup (IF r.ret.op = "Create" /\ r.ret.err = ""
                                     THEN {r.ret.token} ELSE {}))
                        \ touched) \cap DOMAIN r.m.byToken

\* m.mu.Lock() blocks for ever: no later call gets in.
Stuck == mu

\* The tokens callers present: those this manager issues.  One that is not
\* issued yet is an unknown token.
Tokens == {FormatUint(g) : g \in (GenSeed + 1)..(GenSeed + MaxCreates)}
\* The condition lists of Confirm: up to two conditions, each its Token.
ConditionLists ==
    {<<>>} \cup {<<t>> : t \in Tokens}
        \cup {c \in {<<t, u>> : t, u \in Tokens} : c[1] # c[2]}
\* The two names of a Confirm: no name, one name, or a name and "/a/b" (the
\* source and the destination of a move).
NamePairs ==
    {<<EmptyName, EmptyName>>}
        \cup {<<name0, EmptyName>> : name0 \in RawNames}
        \cup {<<name0, <<"/", "a", "/", "b">> >> : name0 \in RawNames}
\* The LockDetails callers pass to Create.
Lock(root, duration, zeroDepth) ==
    [Root |-> root, Duration |-> duration, OwnerXML |-> "o", ZeroDepth |-> zeroDepth]
LockDetailsSet ==
    { Lock(<<"/">>, infiniteTimeout, FALSE),
      Lock(<<"/", "a">>, MaxDuration, FALSE),
      Lock(Unclean, MaxDuration, TRUE),
      Lock(<<"/", "a", "/", "b">>, infiniteTimeout, TRUE) }

Create(now, details) ==
    /\ ~Stuck
    /\ Leaves(CreateOp(LS, now, details), handles, {})

\* A lock that is refreshed is not as Create made it any more.
RefreshLeaves(r, token) == Leaves(r, handles, IF r.ret.err = "" THEN {token} ELSE {})

Refresh(now, token, duration) ==
    /\ ~Stuck
    /\ RefreshLeaves(RefreshOp(LS, now, token, duration), token)

Unlock(now, token) ==
    /\ ~Stuck
    /\ Leaves(UnlockOp(LS, now, token), handles, {})

Delete(now, name) ==
    /\ ~Stuck
    /\ Leaves(DeleteOp(LS, now, name), handles, {})

GetByName(wall, name) ==
    /\ ~Stuck
    /\ Leaves(GetByNameOp(LS, wall, name), handles, {})

\* The caller keeps the closure Confirm returned, unless it captured no node
\* (calling that one does nothing).  released: it has been called.
ConfirmLeaves(r) ==
    IF r.ret.err = "" /\ (r.ret.release.n0 # Nil \/ r.ret.release.n1 # Nil)
    THEN Leaves(r,
                handles \cup {[n0 |-> r.ret.release.n0, n1 |-> r.ret.release.n1,
                               released |-> FALSE]},
                {t \in DOMAIN r.m.byToken :
                     r.m.byToken[t] \in {r.ret.release.n0, r.ret.release.n1}})
    ELSE Leaves(r, handles, {})

Confirm(now, name0, name1, conditions) ==
    /\ ~Stuck
    /\ ConfirmLeaves(ConfirmOp(LS, now, name0, name1, conditions))

\* A kept closure h is called (again, when h.released is already TRUE).
Release(h) ==
    /\ ~Stuck
    /\ Leaves(releaseOp(LS, h), (handles \ {h}) \cup {[h EXCEPT !.released = TRUE]}, {})

Init ==
    /\ nodes = EmptyMap
    /\ byName = EmptyMap
    /\ byToken = EmptyMap
    /\ byExpiry = <<>>
    /\ gen = GenSeed
    /\ handles = {}
    /\ mu = FALSE
    /\ pristine = {}

\* The callers issue at most MaxCreates tokens and keep at most MaxHandles
\* closures.
Next ==
    \/ \E now \in Times, details \in LockDetailsSet :
          gen < GenSeed + MaxCreates /\ Create(now, details)
    \/ \E now \in Times, token \in Tokens, duration \in Durations : Refresh(now, token, duration)
    \/ \E now \in Times, token \in Tokens : Unlock(now, token)
    \/ \E now \in Times, name \in RawNames : Delete(now, name)
    \/ \E wall \in Times, name \in RawNames : GetByName(wall, name)
    \/ \E now \in Times, names \in NamePairs, conditions \in ConditionLists :
          Cardinality(handles) < MaxHandles /\ Confirm(now, names[1], names[2], conditions)
    \/ \E h \in handles : Release(h)

Spec == Init /\ [][Next]_vars

\* ------------------------------------------------- one path, one more lock
\* The same calls on the path "/a/b" alone, with zero-depth locks on "/a" and
\* "/a/b", one closure and one more token: a third lock can be created on a
\* node that an earlier lock has left behind.
NodeReuseDetails ==
    { Lock(<<"/", "a">>, MaxDuration, TRUE),
      Lock(<<"/", "a", "/", "b">>, infiniteTimeout, TRUE) }
NodeReuseTokens == {FormatUint(g) : g \in (GenSeed + 1)..(GenSeed + MaxCreates + 1)}

NextNodeReuse ==
    \/ \E now \in Times, details \in NodeReuseDetails :
          gen < GenSeed + MaxCreates + 1 /\ Create(now, details)
    \/ \E now \in Times, token \in NodeReuseTokens : Refresh(now, token, MaxDuration)
    \/ \E now \in Times, token \in NodeReuseTokens : Unlock(now, token)
    \/ \E now \in Times : Delete(now, <<"/", "a">>)
    \/ \E wall \in Times : GetByName(wall, <<"/", "a">>)
    \/ \E now \in Times, token \in NodeReuseTokens :
          handles = {} /\ Confirm(now, <<"/", "a">>, EmptyName, <<token>>)
    \/ \E h \in handles : Release(h)

SpecNodeReuse == Init /\ [][NextNodeReuse]_vars

\* ------------------------------------------------------------ the locks
\* root is a strict path-ancestor of name: "/" above every other name, or
\* name has root + "/" as a prefix.
IsStrictAncestor(root, name) ==
    /\ root # name
    /\ (root = <<"/">> \/ HasPrefix(name, root \o <<"/">>))

\* The live locks of m are its registered tokens; each has the details, the
\* expiry and the held flag of the node byToken gives for it.
Live(m) == DOMAIN m.byToken
DetailsOf(m, t) == m.nodes[m.byToken[t]].details
ExpiryOf(m, t) == m.nodes[m.byToken[t]].expiry
HeldOf(m, t) == m.nodes[m.byToken[t]].held

\* A Create of a lock at name with the given depth conflicts with a live lock
\* of m: (a) one rooted at name, (b) the new lock is infinite-depth and one is
\* rooted strictly below name, (c) an infinite-depth one is rooted strictly
\* above name.
ConflictWith(m, t, name, zeroDepth) ==
    LET d == DetailsOf(m, t)
    IN  \/ d.Root = name
        \/ ~zeroDepth /\ IsStrictAncestor(name, d.Root)
        \/ ~d.ZeroDepth /\ IsStrictAncestor(d.Root, name)

Conflict(m, name, zeroDepth) == \E t \in Live(m) : ConflictWith(m, t, name, zeroDepth)

\* ---------------------------------------------------------------- C1
\* C1: hierarchical exclusivity holds in every state between calls: any two
\* locks registered at the same time have different roots, and neither is an
\* infinite-depth lock rooted strictly above the other's root.
HierarchicalExclusivity ==
    \A t, u \in Live(LS) :
        t # u =>
            /\ DetailsOf(LS, t).Root # DetailsOf(LS, u).Root
            /\ ~(/\ ~DetailsOf(LS, t).ZeroDepth
                 /\ IsStrictAncestor(DetailsOf(LS, t).Root, DetailsOf(LS, u).Root))

\* ---------------------------------------------------------------- C2
\* C2: Create(now, details), after its sweep at now, returns ErrLocked exactly
\* when the requested lock conflicts with a live lock (same root; a live lock
\* strictly below an infinite-depth request; a live infinite-depth lock
\* strictly above); otherwise it succeeds and registers the lock under the
\* token it returns; and a Create that returns ErrLocked leaves the manager as
\* the sweep left it.
CreateLockedExactlyOnConflict ==
    \A now \in Times, details \in LockDetailsSet :
        LET c == collectExpiredNodes(LS, now)
            r == CreateOp(LS, now, details)
            d == [details EXCEPT !.Root = slashClean(details.Root)]
        IN  r.ret.err # Hangs =>
                /\ r.ret.err \in {"", ErrLocked}
                /\ r.ret.err = ErrLocked <=> Conflict(c.m, d.Root, d.ZeroDepth)
                /\ r.ret.err = ErrLocked => r.m = c.m
                /\ r.ret.err = "" =>
                       /\ r.ret.token \notin Live(c.m)
                       /\ Live(r.m) = Live(c.m) \cup {r.ret.token}
                       /\ DetailsOf(r.m, r.ret.token) = d

\* ---------------------------------------------------------------- C3
\* C3: a lock created at T0 with a duration D >= 0 has the expiry instant
\* T0 + D, and as long as it is registered and was never refreshed or claimed
\* it is live for every call evaluated before T0 + D and absent for every call
\* evaluated at or after it: GetByName on its root reports it before and
\* ErrNoSuchLock after, Refresh and Unlock with its token return ErrNoSuchLock
\* after, and a Create at its root after is not rejected because of it.
ExpiresAtCreationPlusDuration ==
    /\ \A now \in Times, details \in LockDetailsSet :
           LET r == CreateOp(LS, now, details)
           IN  r.ret.err = "" /\ details.Duration >= 0 =>
                   ExpiryOf(r.m, r.ret.token) = now + details.Duration
    /\ \A t \in pristine :
           LET d == DetailsOf(LS, t)
               e == ExpiryOf(LS, t)
           IN  d.Duration >= 0 =>
                   \A now \in Times :
                       LET c == collectExpiredNodes(LS, now)
                           g == GetByNameOp(LS, now, d.Root).ret
                       IN  ~c.hang =>
                               /\ now < e => g.err = "" /\ g.token = t
                               /\ now >= e =>
                                      /\ g.err = ErrNoSuchLock
                                      /\ \A duration \in Durations :
                                             RefreshOp(LS, now, t, duration).ret.err
                                                 = ErrNoSuchLock
                                      /\ UnlockOp(LS, now, t).ret.err = ErrNoSuchLock
                                      /\ CreateOp(LS, now, d).ret.err = ErrLocked =>
                                             \E u \in Live(c.m) \ {t} :
                                                 ConflictWith(c.m, u, d.Root, d.ZeroDepth)

\* ---------------------------------------------------------------- C4
\* The live locks a closure of Confirm claimed: the tokens of its n0 and n1.
ClaimedBy(m, h) == {t \in Live(m) : m.byToken[t] \in {h.n0, h.n1}}

\* C4: each lock is held by at most one outstanding Confirm.  While a closure
\* returned by Confirm has not been called, no other outstanding closure claims
\* the same lock, every Confirm that presents only the token of a lock it
\* claimed returns ErrConfirmationFailed, and once the closure is called a
\* Confirm of the lock's root with that token succeeds again (at an instant
\* before the lock's expiry).
OneOutstandingConfirmPerLock ==
    \A h \in handles :
        ~h.released =>
            \A t \in ClaimedBy(LS, h) :
                /\ \A g \in handles \ {h} : ~g.released => t \notin ClaimedBy(LS, g)
                /\ \A now \in Times, names \in NamePairs \ {<<EmptyName, EmptyName>>} :
                       ConfirmOp(LS, now, names[1], names[2], <<t>>).ret.err
                           \in {ErrConfirmationFailed, Hangs}
                /\ LET r == releaseOp(LS, h)
                       d == DetailsOf(LS, t)
                   IN  /\ r.ret.err = ""
                       /\ \A now \in Times :
                              d.Duration < 0 \/ now < ExpiryOf(LS, t) =>
                                  ConfirmOp(r.m, now, d.Root, EmptyName, <<t>>).ret.err = ""

\* ---------------------------------------------------------------- C5
\* The memLS values the calls other than a release and other than a Delete of
\* `root` leave, whatever their arguments.
AfterAnyCallBut(root) ==
    {CreateOp(LS, now, details).m : now \in Times, details \in LockDetailsSet}
        \cup {RefreshOp(LS, x[1], x[2], x[3]).m : x \in Times \X Tokens \X Durations}
        \cup {UnlockOp(LS, now, token).m : now \in Times, token \in Tokens}
        \cup {DeleteOp(LS, now, name).m : now \in Times, name \in RawNames \ {root}}
        \cup {GetByNameOp(LS, wall, name).m : wall \in Times, name \in RawNames}
        \cup {ConfirmOp(LS, x[1], x[2][1], x[2][2], x[3]).m :
                  x \in Times \X NamePairs \X ConditionLists}

\* C5: a held lock (claimed by a Confirm whose closure has not been called)
\* cannot expire.  Whatever call comes next, with any now, its token stays
\* registered (a Delete of its own root apart); every Create that conflicts
\* with it returns ErrLocked; and once its closure is called, the sweep of a
\* call with now at or after its expiry instant removes it.
HeldLockDoesNotExpire ==
    \A h \in handles :
        ~h.released =>
            \A t \in ClaimedBy(LS, h) :
                LET d == DetailsOf(LS, t)
                IN  /\ \A m \in AfterAnyCallBut(d.Root) : t \in Live(m)
                    /\ \A now \in Times, details \in LockDetailsSet :
                           ConflictWith(LS, t, slashClean(details.Root), details.ZeroDepth)
                               => CreateOp(LS, now, details).ret.err \in {ErrLocked, Hangs}
                    /\ \A now \in Times :
                           d.Duration >= 0 /\ now >= ExpiryOf(LS, t) =>
                               t \notin Live(collectExpiredNodes(releaseOp(LS, h).m, now).m)

\* ---------------------------------------------------------------- C6
\* The tokens a caller may present to Refresh and Unlock: the issued ones,
\* those not issued yet, and the empty token.
AnyToken == Tokens \cup {""}

\* C6: Refresh and Unlock classify the token after the sweep (when the sweep
\* ends): a token that is not registered then gives ErrNoSuchLock, a
\* registered token whose lock is held gives ErrLocked, any other token
\* succeeds; and a call that returns an error leaves the manager exactly as
\* the sweep left it.
RefreshUnlockClassifyToken ==
    \A now \in Times, token \in AnyToken :
        LET c == collectExpiredNodes(LS, now)
            expect == IF token \notin Live(c.m) THEN ErrNoSuchLock
                      ELSE IF HeldOf(c.m, token) THEN ErrLocked
                      ELSE ""
            u == UnlockOp(LS, now, token)
        IN  ~c.hang =>
                /\ u.ret.err = expect
                /\ u.ret.err # "" => u.m = c.m
                /\ \A duration \in Durations :
                       LET r == RefreshOp(LS, now, token, duration)
                       IN  /\ r.ret.err = expect
                           /\ r.ret.err # "" => r.m = c.m

\* The case of C6: one registered lock is held and another has expired at
\* now; Refresh and Unlock return ErrLocked for the first and ErrNoSuchLock
\* for the second.
RefreshUnlockClassifyTokenWitness ==
    \E now \in Times, t, u \in Live(LS) :
        /\ HeldOf(LS, t)
        /\ u \notin Live(collectExpiredNodes(LS, now).m)
        /\ UnlockOp(LS, now, t).ret.err = ErrLocked
        /\ RefreshOp(LS, now, t, MaxDuration).ret.err = ErrLocked
        /\ UnlockOp(LS, now, u).ret.err = ErrNoSuchLock
        /\ RefreshOp(LS, now, u, MaxDuration).ret.err = ErrNoSuchLock

\* ---------------------------------------------------------------- C7
\* The tokens issued so far.
Issued == {FormatUint(g) : g \in (GenSeed + 1)..gen}

\* Unlock(now, t) on the lock t, live and not held after the sweep at now,
\* succeeds and removes it: t is not registered, its node is not in the expiry
\* queue, a following Refresh or Unlock with t returns ErrNoSuchLock, a
\* following Confirm presenting only t fails, and a following Create that only
\* t was blocking succeeds.
UnlockRemoves(now, t) ==
    LET c == collectExpiredNodes(LS, now)
        n == c.m.byToken[t]
        u == UnlockOp(LS, now, t)
    IN  /\ u.ret.err = ""
        /\ t \notin Live(u.m)
        /\ \A k \in 1..Len(u.m.byExpiry) : u.m.byExpiry[k] # n
        /\ \A later \in Times :
               /\ UnlockOp(u.m, later, t).ret.err = ErrNoSuchLock
               /\ \A duration \in Durations :
                      RefreshOp(u.m, later, t, duration).ret.err = ErrNoSuchLock
               /\ \A names \in NamePairs \ {<<EmptyName, EmptyName>>} :
                      ConfirmOp(u.m, later, names[1], names[2], <<t>>).ret.err
                          = ErrConfirmationFailed
        /\ \A details \in LockDetailsSet :
               LET name == slashClean(details.Root)
               IN  /\ ConflictWith(c.m, t, name, details.ZeroDepth)
                   /\ \A o \in Live(c.m) \ {t} :
                          ~ConflictWith(c.m, o, name, details.ZeroDepth)
                   => CreateOp(u.m, now, details).ret.err = ""

\* C7: Unlock on a live, non-held lock succeeds and fully removes the lock
\* (UnlockRemoves), and the token stays unknown for ever after: a token that
\* was issued and is not registered is never registered again.
UnlockFullyRemoves ==
    /\ [](\A now \in Times, t \in Live(LS) :
              LET c == collectExpiredNodes(LS, now)
              IN  ~c.hang /\ t \in Live(c.m) /\ ~HeldOf(c.m, t) => UnlockRemoves(now, t))
    /\ [][\A t \in Issued : t \notin DOMAIN byToken => t \notin DOMAIN byToken']_vars

\* The case of C7: Unlock removes a live, non-held lock with a finite timeout
\* (so it is in the expiry queue) that is the only lock blocking some Create.
UnlockFullyRemovesWitness ==
    \E now \in Times, t \in Live(LS), details \in LockDetailsSet :
        LET c == collectExpiredNodes(LS, now)
        IN  /\ t \in Live(c.m)
            /\ ~HeldOf(c.m, t)
            /\ c.m.nodes[c.m.byToken[t]].byExpiryIndex >= 0
            /\ Cardinality(Live(c.m)) = 2
            /\ CreateOp(LS, now, details).ret.err = ErrLocked
            /\ UnlockOp(LS, now, t).ret.err = ""
            /\ CreateOp(UnlockOp(LS, now, t).m, now, details).ret.err = ""

\* ---------------------------------------------------------------- C8
\* The live lock t of m covers name: it is rooted at name, or it is
\* infinite-depth and rooted strictly above name.
Covers(m, t, name) ==
    \/ DetailsOf(m, t).Root = name
    \/ ~DetailsOf(m, t).ZeroDepth /\ IsStrictAncestor(DetailsOf(m, t).Root, name)

\* C8: GetByName(name) reports the nearest live lock that covers the
\* slash-clean name (rooted at it, or infinite-depth on the nearest ancestor),
\* with its details, and returns ErrNoSuchLock when no live lock covers it; a
\* zero-depth lock on a strict ancestor does not cover it.
GetByNameNearestCoveringLock ==
    \A wall \in Times, name \in RawNames :
        LET c == collectExpiredNodes(LS, wall)
            g == GetByNameOp(LS, wall, name).ret
            cover == {t \in Live(c.m) : Covers(c.m, t, slashClean(name))}
        IN  ~c.hang =>
                IF cover = {} THEN g.err = ErrNoSuchLock
                ELSE /\ g.err = ""
                     /\ g.token \in cover
                     /\ \A o \in cover :
                            Len(DetailsOf(c.m, o).Root) <= Len(DetailsOf(c.m, g.token).Root)
                     /\ g.details = DetailsOf(c.m, g.token)

\* ---------------------------------------------------------------- C9
\* Some condition of the list names a live lock of m that is not held and
\* covers name.
SomeConditionMatches(m, name, conditions) ==
    \E k \in 1..Len(conditions) :
        /\ conditions[k] \in Live(m)
        /\ ~HeldOf(m, conditions[k])
        /\ Covers(m, conditions[k], name)

HeldLocks(m) == {t \in Live(m) : HeldOf(m, t)}

\* C10: Confirm, when its sweep ends, returns a release closure or an error,
\* never both and never neither.  When it returns ErrConfirmationFailed the manager is exactly as
\* the sweep left it (no held flag set, no expiry-queue entry moved, also when
\* name0 resolved and name1 did not).  When it succeeds, the locks it resolved
\* are the locks newly held, each captured once by the closure, nothing else
\* changes but their held flags and their expiry-queue entries, and calling
\* the closure un-holds each of them once.
ConfirmAllOrNothing ==
    \A now \in Times, names \in NamePairs, conditions \in ConditionLists :
        LET c == collectExpiredNodes(LS, now)
            o == ConfirmOp(LS, now, names[1], names[2], conditions)
            f == o.ret.release
            resolved == {lookup(c.m, slashClean(names[k]), conditions) :
                             k \in {j \in 1..2 : names[j] # EmptyName}}
        IN  ~c.hang =>
                /\ f.isNil <=> o.ret.err # ""
                /\ o.ret.err # "" => o.m = c.m
                /\ o.ret.err = "" =>
                       /\ {f.n0, f.n1} \ {Nil} = resolved
                       /\ f.n0 # Nil => f.n0 # f.n1
                       /\ \A n \in resolved : ~c.m.nodes[n].held /\ o.m.nodes[n].held
                       /\ HeldLocks(o.m) = HeldLocks(c.m) \cup {c.m.nodes[n].token : n \in resolved}
                       /\ \A n \in DOMAIN c.m.nodes \ resolved :
                              [o.m.nodes[n] EXCEPT !.byExpiryIndex = 0]
                                  = [c.m.nodes[n] EXCEPT !.byExpiryIndex = 0]
                       /\ o.m.byToken = c.m.byToken /\ o.m.byName = c.m.byName
                       /\ releaseOp(o.m, f).ret.err = ""
                       /\ HeldLocks(releaseOp(o.m, f).m) = HeldLocks(c.m)

\* The cases of C10, in one state: a Confirm whose name0 resolves and whose
\* name1 does not fails and holds nothing; a Confirm of two names resolved by
\* two locks holds both; and a Confirm of two names resolved by the same lock
\* holds it once (the closure captures it as n0 alone).
ConfirmAllOrNothingWitness ==
    \E now \in Times, t, u \in Live(LS) :
        LET c    == collectExpiredNodes(LS, now)
            ab   == <<"/", "a", "/", "b">>
            fail == ConfirmOp(LS, now, <<"/", "a">>, ab, <<t>>)
            both == ConfirmOp(LS, now, <<"/", "a">>, ab, <<t, u>>)
            same == ConfirmOp(LS, now, ab, ab, <<u>>)
        IN  /\ t # u
            /\ lookup(c.m, <<"/", "a">>, <<t>>) # Nil
            /\ lookup(c.m, ab, <<t>>) = Nil
            /\ fail.ret.err = ErrConfirmationFailed
            /\ fail.m = c.m
            /\ both.ret.err = ""
            /\ both.ret.release.n0 # Nil
            /\ both.ret.release.n1 # Nil
            /\ HeldLocks(both.m) = {t, u}
            /\ same.ret.err = ""
            /\ same.ret.release.n0 = c.m.byToken[u]
            /\ same.ret.release.n1 = Nil
            /\ HeldLocks(same.m) = {u}

\* ---------------------------------------------------------------- C11
\* The nodes in the expiry queue of m.
Queued(m) == {m.byExpiry[k] : k \in 1..Len(m.byExpiry)}

\* The live lock u is the same in m1 and m2: the same node under the same
\* token, with the same details, expiry instant and held flag, and in the
\* expiry queue of both or of neither.
SameLock(m1, m2, u) ==
    /\ u \in Live(m1) /\ u \in Live(m2)
    /\ m1.byToken[u] = m2.byToken[u]
    /\ DetailsOf(m1, u) = DetailsOf(m2, u)
    /\ ExpiryOf(m1, u) = ExpiryOf(m2, u)
    /\ HeldOf(m1, u) = HeldOf(m2, u)
    /\ m1.byToken[u] \in Queued(m1) <=> m2.byToken[u] \in Queued(m2)

\* C11: Refresh(now, token, d) on a lock that is live and not held after the
\* sweep succeeds and replaces the timeout: the returned details are the old
\* ones with Duration d, the lock keeps its token, root, owner and depth, every
\* other lock is unchanged, for d >= 0 the expiry instant is now + d, and the
\* sweep of a following call at `later` (when it ends) removes the lock exactly
\* when d >= 0 and later >= now + d.
RefreshReplacesTimeout ==
    \A now \in Times, token \in Live(LS), duration \in Durations :
        LET c == collectExpiredNodes(LS, now)
            r == RefreshOp(LS, now, token, duration)
        IN  ~c.hang /\ token \in Live(c.m) /\ ~HeldOf(c.m, token) =>
                /\ r.ret.err = ""
                /\ r.ret.details = [DetailsOf(c.m, token) EXCEPT !.Duration = duration]
                /\ DetailsOf(r.m, token) = r.ret.details
                /\ Live(r.m) = Live(c.m)
                /\ r.m.byToken[token] = c.m.byToken[token]
                /\ ~HeldOf(r.m, token)
                /\ duration >= 0 => ExpiryOf(r.m, token) = now + duration
                /\ \A u \in Live(c.m) \ {token} : SameLock(c.m, r.m, u)
                /\ \A later \in Times :
                       LET s == collectExpiredNodes(r.m, later)
                       IN  ~s.hang =>
                               (token \in Live(s.m) <=> duration < 0 \/ later < now + duration)

\* The case of C11: a lock created at 0 with a finite duration, about to be
\* swept at MaxTime, is refreshed at MaxTime to never expire and outlives the
\* sweep at MaxTime that would have removed it; refreshed at 0 with duration
\* MaxDuration it is swept at MaxDuration.
RefreshReplacesTimeoutWitness ==
    \E token \in Live(LS) :
        /\ ~HeldOf(LS, token)
        /\ DetailsOf(LS, token).Duration >= 0
        /\ token \in Live(collectExpiredNodes(LS, 0).m)
        /\ token \notin Live(collectExpiredNodes(LS, MaxTime).m)
        /\ RefreshOp(LS, 0, token, infiniteTimeout).ret.err = ""
        /\ token \in Live(collectExpiredNodes(RefreshOp(LS, 0, token, infiniteTimeout).m,
                                               MaxTime).m)
        /\ RefreshOp(LS, 0, token, MaxDuration).ret.err = ""
        /\ token \notin Live(collectExpiredNodes(RefreshOp(LS, 0, token, MaxDuration).m,
                                                  MaxDuration).m)

\* ---------------------------------------------------------------- C12
\* The Creates that the live lock u of m is a reason to reject.
RejectedBecauseOf(m, u) ==
    {details \in LockDetailsSet :
         ConflictWith(m, u, slashClean(details.Root), details.ZeroDepth)}

\* C12: Delete(now, name), when its sweep ends, returns nil.  With no node at
\* name after the sweep it leaves the manager as the sweep left it.  Otherwise
\* the lock rooted at name is not registered any more, and every lock rooted
\* elsewhere is unchanged (token, node, details, expiry instant, held flag,
\* queue entry) and still makes every Create it conflicts with return
\* ErrLocked.
DeleteRemovesExactlyTheLockAtName ==
    \A now \in Times, name \in RawNames :
        LET c == collectExpiredNodes(LS, now)
            r == DeleteOp(LS, now, name)
        IN  ~c.hang =>
                /\ r.ret.err = ""
                /\ name \notin DOMAIN c.m.byName => r.m = c.m
                /\ name \in DOMAIN c.m.byName =>
                       \A u \in Live(c.m) :
                           IF DetailsOf(c.m, u).Root = name
                           THEN u \notin Live(r.m)
                           ELSE /\ SameLock(c.m, r.m, u)
                                /\ \A details \in RejectedBecauseOf(c.m, u) :
                                       CreateOp(r.m, now, details).ret.err = ErrLocked

\* ---------------------------------------------------------------- C13
\* C13: what a call returns and the state it leaves depend only on the state
\* before it and on its arguments.  Create, Refresh, Unlock, Delete and Confirm
\* take `now` as an argument; GetByName takes the name alone, so whatever the
\* wall clock reads when it is called, it returns the same and leaves the same
\* state, with the same locks registered.
DependsOnlyOnStateAndArguments ==
    \A name \in RawNames, wall1, wall2 \in Times :
        /\ GetByNameOp(LS, wall1, name).ret = GetByNameOp(LS, wall2, name).ret
        /\ GetByNameOp(LS, wall1, name).m = GetByNameOp(LS, wall2, name).m
        /\ Live(GetByNameOp(LS, wall1, name).m) = Live(GetByNameOp(LS, wall2, name).m)

\* ---------------------------------------------------------------- C14
\* The memLS values the calls other than Create leave, whatever their
\* arguments, releases included.
AfterAnyCallButCreate ==
    {RefreshOp(LS, x[1], x[2], x[3]).m : x \in Times \X Tokens \X Durations}
        \cup {UnlockOp(LS, now, token).m : now \in Times, token \in Tokens}
        \cup {DeleteOp(LS, now, name).m : now \in Times, name \in RawNames}
        \cup {GetByNameOp(LS, wall, name).m : wall \in Times, name \in RawNames}
        \cup {ConfirmOp(LS, x[1], x[2][1], x[2][2], x[3]).m :
                  x \in Times \X NamePairs \X ConditionLists}
        \cup {releaseOp(LS, h).m : h \in handles}

Paths == UNION {{walkToRoot(slashClean(name))[k] :
                    k \in 1..Len(walkToRoot(slashClean(name)))} : name \in RawNames}

\* The live locks of m rooted at p or below p.
LocksAtOrBelow(m, p) ==
    {t \in Live(m) : DetailsOf(m, t).Root = p \/ IsStrictAncestor(p, DetailsOf(m, t).Root)}

\* C15: in every state between calls the name index has a node for the path p
\* exactly when a live lock is rooted at p or below p, the node's refCount is
\* the number of those locks, and the index has no other entry; so an indexed
\* node's refCount is positive.
RefCountCountsLocksAtOrBelow ==
    /\ DOMAIN byName \subseteq Paths
    /\ \A p \in Paths :
           /\ p \in DOMAIN byName <=> LocksAtOrBelow(LS, p) # {}
           /\ p \in DOMAIN byName =>
                  /\ nodes[byName[p]].refCount = Cardinality(LocksAtOrBelow(LS, p))
                  /\ nodes[byName[p]].refCount > 0

\* ---------------------------------------------------------------- C16
\* C16: in every state between calls a live lock has its node in the expiry
\* queue exactly when its duration is finite and it is not held; and right
\* after the sweep at now that begins a call (when the sweep ends) every queue
\* entry has an expiry instant after now.
QueuedIffFiniteAndNotHeld ==
    /\ \A t \in Live(LS) :
           byToken[t] \in Queued(LS) <=> DetailsOf(LS, t).Duration >= 0 /\ ~HeldOf(LS, t)
    /\ \A now \in Times :
           LET c == collectExpiredNodes(LS, now)
           IN  ~c.hang => \A n \in Queued(c.m) : c.m.nodes[n].expiry > now

\* ---------------------------------------------------------------- C17
\* Calling the closure h in m attempts to un-hold a node that is not held: h
\* captured a node whose held flag is not set.
UnholdsNotHeld(m, h) == \E n \in {h.n0, h.n1} \ {Nil} : ~m.nodes[n].held

\* C17: a call that attempts to un-hold a node that is not held, or to hold
\* one that is held, panics and leaves the manager exactly as it was before
\* the call; a call that returns normally made no such attempt.  The calls
\* that hold and un-hold are Confirm and the closures it returns.
InconsistentHoldPanicsUnchanged ==
    /\ \A h \in handles :
           LET r == releaseOp(LS, h)
           IN  /\ UnholdsNotHeld(LS, h) <=> r.ret.err = Panicked
               /\ r.ret.err = Panicked => r.m = LS
               /\ r.ret.err \in {"", Panicked}
    /\ \A now \in Times, names \in NamePairs, conditions \in ConditionLists :
           LET o == ConfirmOp(LS, now, names[1], names[2], conditions)
           IN  o.ret.err = Panicked => o.m = LS

\* ---------------------------------------------------------------- C18
\* C18: a successful Confirm followed at once by the closure it returned is a
\* round trip on the locks.  The closure returns normally, and it leaves the
\* tokens that were registered after Confirm's sweep, each with the same node,
\* details, expiry instant, held flag and presence in the expiry queue as
\* after the sweep, the locks Confirm claimed not held, and the name index as
\* it was: the closure unlocks nothing.
ConfirmReleaseRoundTrip ==
    \A now \in Times, names \in NamePairs, conditions \in ConditionLists :
        LET c == collectExpiredNodes(LS, now)
            o == ConfirmOp(LS, now, names[1], names[2], conditions)
            r == releaseOp(o.m, o.ret.release)
        IN  ~c.hang /\ o.ret.err = "" =>
                /\ r.ret.err = ""
                /\ Live(r.m) = Live(c.m)
                /\ Live(o.m) = Live(c.m)
                /\ \A t \in Live(c.m) : SameLock(c.m, r.m, t)
                /\ \A t \in ClaimedBy(o.m, o.ret.release) : HeldOf(o.m, t) /\ ~HeldOf(r.m, t)
                /\ HeldLocks(r.m) = HeldLocks(c.m)
                /\ Queued(r.m) = Queued(c.m)
                /\ r.m.byName = c.m.byName
                /\ r.m.byToken = c.m.byToken

\* The case of C18: Confirm at now claims two locks, one with a finite
\* duration (in the expiry queue, and out of it while held) and one that never
\* expires; the closure puts the first back in the queue with the expiry
\* instant it had, and neither lock is held after it.
ConfirmReleaseRoundTripWitness ==
    \E now \in Times, t, u \in Live(LS) :
        LET c == collectExpiredNodes(LS, now)
            o == ConfirmOp(LS, now, <<"/", "a">>, <<"/", "a", "/", "b">>, <<t, u>>)
            r == releaseOp(o.m, o.ret.release)
        IN  /\ {t, u} \subseteq Live(c.m)
            /\ DetailsOf(c.m, t).Duration >= 0
            /\ DetailsOf(c.m, u).Duration < 0
            /\ o.ret.err = ""
            /\ ClaimedBy(o.m, o.ret.release) = {t, u}
            /\ c.m.byToken[t] \in Queued(c.m)
            /\ c.m.byToken[t] \notin Queued(o.m)
            /\ c.m.byToken[t] \in Queued(r.m)
            /\ ExpiryOf(r.m, t) = ExpiryOf(c.m, t)
            /\ HeldLocks(o.m) = {t, u}
            /\ HeldLocks(r.m) = {}

\* ---------------------------------------------------------------- C19
\* C19: in every state between calls every node in the expiry queue is the
\* node of a live lock: its token is not empty, byToken maps the token to the
\* node, and byName maps the root of its details to the node.
QueueEntriesAreLiveLocks ==
    \A n \in Queued(LS) :
        /\ nodes[n].token # ""
        /\ MapGet(byToken, nodes[n].token) = n
        /\ MapGet(byName, nodes[n].details.Root) = n

\* ---------------------------------------------------------------- C20
\* C20: a closure returned by Confirm takes effect at most once.  Called again
\* after it has been called, it clears no held flag and moves no queue entry:
\* every lock that is held, by a later Confirm, is still held after it, and
\* the expiry queue holds the same nodes.
UsedReleaseClearsNoHold ==
    \A h \in handles :
        h.released =>
            LET r == releaseOp(LS, h)
            IN  /\ \A t \in HeldLocks(LS) : t \in Live(r.m) /\ HeldOf(r.m, t)
                /\ Queued(r.m) = Queued(LS)

====
